---- MODULE Spec2Model ----
(***************************************************************************)
(* NexusConvergenceMap4D: parametric streams, time-sliced convergence      *)
(* detection and the animation clock of the page component.                *)
(*                                                                         *)
(* Numbers.  The program computes in IEEE doubles; the model computes in   *)
(* fixed point over the integers:                                          *)
(*   - coordinates: half world units; every sampled coordinate is a whole  *)
(*     number of world units (an even value), so the midpoint of two       *)
(*     samples, (a.x + b.x) * 0.5, is exact;                               *)
(*   - intensity and strength: 1/2000, sampled intensities even;           *)
(*   - path coordinate u: the fraction n/d as the record [n, d];           *)
(*   - time tau: 1/100000; speed: tenths; frame delta: 1/100 s;            *)
(*   - shape parameters: 1/1000, phases in degrees;                        *)
(*   - sin and cos: Bhaskara's rational approximation on whole degrees.    *)
(***************************************************************************)
EXTENDS Integers, Sequences, FiniteSets, TLC

VARIABLES
  ui,          \* the mounted NexusConvergenceMap4D: its state hooks and memos
  uiB,         \* a second run of the component, for comparing two runs
  args,        \* arguments of the latest direct call of detectConvergenceAtTime
  candidates,  \* that call's local `convergences` when its pairwise scan ends
  returned,    \* that call's return value
  earlier,     \* args, candidates and returned of the direct call before the latest
  points,      \* return value of the latest direct call of buildStreamPointsAtTime
  phase        \* what the direct caller has done so far

vars == <<ui, uiB, args, candidates, returned, earlier, points, phase>>

\* ---------------------------------------------------------------- bounds
\* Most streams in a list handed to detectConvergenceAtTime.
MaxStreams == 3
\* Frame ticks are taken while tau is below MaxTau (1/100000).
MaxTau == 3000
\* Values Math.floor(Math.random() * 2 ** 31) takes.
SeedPool == {1, 777}

\* ------------------------------------------------------- program constants
BoundsW == 520
BoundsH == 520
MaxConvergences == 200

\* ---------------------------------------------------------- Math / Utils
Abs(v) == IF v < 0 THEN -v ELSE v

Min(a, b) == IF a < b THEN a ELSE b

Max(a, b) == IF a > b THEN a ELSE b

clamp(v, min, max) == Min(max, Max(min, v))

\* A 32-bit word is the record [hi, lo] of its two 16-bit halves.
Half == 65536

Pow2(k) == 2 ^ k

\* The word of an integer 0 <= n < 2^31.
ToWord(n) == [hi |-> n \div Half, lo |-> n % Half]

\* w << s, 0 <= s < 32.
Shl(w, s) ==
  IF s >= 16 THEN [hi |-> (w.lo * Pow2(s - 16)) % Half, lo |-> 0]
  ELSE [hi |-> (w.hi * Pow2(s) + (w.lo * Pow2(s)) \div Half) % Half,
        lo |-> (w.lo * Pow2(s)) % Half]

\* w >>> s, 0 <= s < 32.
ShrU(w, s) ==
  IF s >= 16 THEN [hi |-> 0, lo |-> w.hi \div Pow2(s - 16)]
  ELSE [hi |-> w.hi \div Pow2(s),
        lo |-> w.lo \div Pow2(s) + (w.hi % Pow2(s)) * Pow2(16 - s)]

RECURSIVE XorBits(_, _, _)
\* a ^ b on the low n bits.
XorBits(a, b, n) ==
  IF n = 0 THEN 0
  ELSE ((a + b) % 2) + 2 * XorBits(a \div 2, b \div 2, n - 1)

Xor(a, b) == [hi |-> XorBits(a.hi, b.hi, 16), lo |-> XorBits(a.lo, b.lo, 16)]

\* a + b modulo 2^32.
AddW(a, b) ==
  [hi |-> (a.hi + b.hi + (a.lo + b.lo) \div Half) % Half, lo |-> (a.lo + b.lo) % Half]

\* w * c modulo 2^32, 0 <= c < 256.
MulByte(w, c) ==
  [hi |-> (w.hi * c + (w.lo * c) \div Half) % Half, lo |-> (w.lo * c) % Half]

\* Math.floor(n * m) | 0 for integers 0 <= n < 2^31, 0 <= m < 2^24 whose product
\* a double holds exactly: the low 32 bits of the product.
MulToInt32(n, m) ==
  LET w == ToWord(n)
  IN  AddW(MulByte(w, m % 256),
           AddW(Shl(MulByte(w, (m \div 256) % 256), 8),
                Shl(MulByte(w, (m \div Half) % 256), 16)))

\* rand: xorshift32, then ((seed >>> 0) / 0xffffffff) % 1 in 1/1000 (0..999).
\* The quotient is taken on the top 16 bits of the word.
rand(seed) ==
  LET s1 == Xor(seed, Shl(seed, 13))
      s2 == Xor(s1, ShrU(s1, 17))
      s3 == Xor(s2, Shl(s2, 5))
  IN  IF s3.hi = Half - 1 /\ s3.lo = Half - 1 THEN 0 ELSE (s3.hi * 1000) \div Half

\* ------------------------------------------------ Stream Param Generator
\* makeStreamParams(id, seedBase); seedBase an integer 0 <= seedBase < 2^31.
makeStreamParams(id, seedBase) ==
  LET s1 == MulToInt32(seedBase + Len(id) * 13, 1000003)
      s2 == MulToInt32(seedBase + Len(id) * 37, 9999989)
      s3 == MulToInt32(seedBase + Len(id) * 91, 7000001)
      s4 == MulToInt32(seedBase + Len(id) * 59, 5000161)
  IN  [ fx        |-> 1000 + (rand(s1) * 35) \div 10,
        fy        |-> 1000 + rand(s2) * 3,
        fz        |-> 1000 + (rand(s3) * 25) \div 10,
        ampY      |-> 250 + (rand(Xor(s2, s3)) * 45) \div 100,
        ampZ      |-> 250 + (rand(Xor(s1, s4)) * 45) \div 100,
        twist     |-> ((rand(Xor(s1, s2)) - 500) * 8) \div 10,
        swirl     |-> ((rand(Xor(s2, s4)) - 500) * 6) \div 10,
        phaseY    |-> (rand(Xor(s3, s4)) * 360) \div 1000,
        phaseZ    |-> (rand(Xor(s4, s1)) * 360) \div 1000,
        colorSeed |-> (rand(Xor(Xor(Xor(s1, s2), s3), s4)) * 360) \div 1000 ]

\* ------------------------------------------------------------- sampling
\* 1000 * sin of a whole number of degrees.
Sin1000(deg) ==
  LET d == deg % 360
      h == IF d > 180 THEN d - 180 ELSE d
      v == (4000 * h * (180 - h)) \div (40500 - h * (180 - h))
  IN  IF d > 180 THEN -v ELSE v

Cos1000(deg) == Sin1000(deg + 90)

\* (u * f + tau * rate) * 2 pi in whole degrees; f in 1/1000, rate in 1/100.
Phase(u, f, tau, rate) ==
  (360 * u.n * f) \div (u.d * 1000) + (36 * tau * rate) \div 1000000

bounds == [w |-> BoundsW, h |-> BoundsH]

pointOnStream(u, tau, params, bnds) ==
  LET x == (bnds.w * (2 * u.n - u.d)) \div (2 * u.d)
           + (Sin1000(Phase(u, params.fx, tau, 15)) * params.twist * 25) \div 1000000
      y == (bnds.h * params.ampY
              * Sin1000(Phase(u, params.fy, tau, 22) + params.phaseY)) \div 1000000
           + (Cos1000(Phase(u, 1200, tau, 7)) * 10) \div 1000
      z == (bnds.h * params.ampZ
              * Cos1000(Phase(u, params.fz, tau, 18) + params.phaseZ)) \div 1000000
           + (Sin1000(Phase(u, 900, tau, 11)) * params.swirl * 30) \div 1000000
      intensity ==
           500 + Sin1000(Phase(u, params.fy + params.fz, tau, 20)
                         + (params.phaseY + params.phaseZ) \div 2) \div 2
  IN  [x |-> 2 * x, y |-> 2 * y, z |-> 2 * z, u |-> u, intensity |-> 2 * intensity]

RECURSIVE BuildRange(_, _, _, _, _, _)
\* The loop for (let i = lo; i <= hi; i++) pts.push(pointOnStream(i / steps, ...)),
\* unrolled by halving the range.
BuildRange(lo, hi, params, bnds, steps, tau) ==
  IF lo > hi THEN <<>>
  ELSE IF lo = hi THEN <<pointOnStream([n |-> lo, d |-> steps], tau, params, bnds)>>
  ELSE LET mid == (lo + hi) \div 2
       IN  BuildRange(lo, mid, params, bnds, steps, tau)
             \o BuildRange(mid + 1, hi, params, bnds, steps, tau)

buildStreamPointsExclusive(params, bnds, steps, tau) ==
  BuildRange(0, steps - 1, params, bnds, steps, tau)

buildStreamPointsAtTime(params, bnds, steps, tau) ==
  BuildRange(0, steps, params, bnds, steps, tau)

\* ------------------------------------- Convergence Detection (slice at tau)
\* One stream's points, each tagged with the stream's id.
TaggedPoints(s, tau, steps, bnds) ==
  LET pts == buildStreamPointsAtTime(s.params, bnds, steps, tau)
  IN  [k \in 1..Len(pts) |->
         [x |-> pts[k].x, y |-> pts[k].y, z |-> pts[k].z, u |-> pts[k].u,
          intensity |-> pts[k].intensity, streamId |-> s.id]]

RECURSIVE AllPointsFrom(_, _, _, _, _)
\* all: the tagged points of streams[s..], stream after stream.
AllPointsFrom(streams, s, tau, steps, bnds) ==
  IF s > Len(streams) THEN <<>>
  ELSE TaggedPoints(streams[s], tau, steps, bnds)
         \o AllPointsFrom(streams, s + 1, tau, steps, bnds)

OutsideSliceOrOnEdge(a, b, sliceDu) == Abs(a.u.n - b.u.n) * 1000 >= sliceDu * a.u.d

\* Math.abs(a.u - b.u) > sliceDu; sliceDu in 1/1000, both u over the same d.
OutsideSlice(a, b, sliceDu) == Abs(a.u.n - b.u.n) * 1000 > sliceDu * a.u.d

NeverSameStream(a, b) == FALSE

SameStream(a, b) == a.streamId = b.streamId

NotNearer(a, b, threshold) ==
  LET dx == a.x - b.x
      dy == a.y - b.y
      dz == a.z - b.z
  IN  dx * dx + dy * dy + dz * dz >= (2 * threshold) * (2 * threshold)

\* d2 <= threshold * threshold; coordinates are in half units.
Near(a, b, threshold) ==
  LET dx == a.x - b.x
      dy == a.y - b.y
      dz == a.z - b.z
  IN  dx * dx + dy * dy + dz * dz <= (2 * threshold) * (2 * threshold)

\* The pair (a, b) passes both continue tests and the distance test.
IsCandidate(a, b, sliceDu, threshold) ==
  /\ ~OutsideSlice(a, b, sliceDu)
  /\ ~SameStream(a, b)
  /\ Near(a, b, threshold)

MakeConvergenceOfFirst(a, b) ==
  [x |-> (a.x + b.x) \div 2, y |-> (a.y + b.y) \div 2, z |-> (a.z + b.z) \div 2,
   strength |-> (a.intensity + b.intensity) \div 2,
   u |-> [n |-> a.u.n + b.u.n, d |-> 2 * a.u.d],
   streams |-> <<a.streamId, a.streamId>>]

MakeConvergenceUnaveraged(a, b) ==
  [x |-> (a.x + b.x) \div 2, y |-> (a.y + b.y) \div 2, z |-> (a.z + b.z) \div 2,
   strength |-> a.intensity,
   u |-> [n |-> a.u.n + b.u.n, d |-> 2 * a.u.d],
   streams |-> <<a.streamId, b.streamId>>]

\* The event pushed for the pair (a, b).
MakeConvergence(a, b) ==
  [x |-> (a.x + b.x) \div 2, y |-> (a.y + b.y) \div 2, z |-> (a.z + b.z) \div 2,
   strength |-> (a.intensity + b.intensity) \div 2,
   u |-> [n |-> a.u.n + b.u.n, d |-> 2 * a.u.d],
   streams |-> <<a.streamId, b.streamId>>]

\* The inner loop for one i: j = i + 1 .. all.length - 1, in order.
ScanRow(all, i, sliceDu, threshold) ==
  LET a  == all[i]
      bs == SelectSeq(SubSeq(all, i + 1, Len(all)),
                      LAMBDA b : IsCandidate(a, b, sliceDu, threshold))
  IN  [k \in 1..Len(bs) |-> MakeConvergence(a, bs[k])]

RECURSIVE ScanRange(_, _, _, _, _)
\* The outer loop for i = lo .. hi, unrolled by halving the range.
ScanRange(all, lo, hi, sliceDu, threshold) ==
  IF lo > hi THEN <<>>
  ELSE IF lo = hi THEN <<>> \o ScanRow(all, lo, sliceDu, threshold)
  ELSE LET mid == (lo + hi) \div 2
       IN  ScanRange(all, lo, mid, sliceDu, threshold)
             \o ScanRange(all, mid + 1, hi, sliceDu, threshold)

\* convergences: the candidates of the pairwise scan, in scan order.
PairwiseScan(streams, tau, sliceDu, threshold, steps, bnds) ==
  LET all == AllPointsFrom(streams, 1, tau, steps, bnds)
  IN  ScanRange(all, 1, Len(all), sliceDu, threshold)

\* Math.round(c / voxel) as printed in the key, voxel = threshold * 0.75 and c in
\* half units: Math.round rounds halves up; a zero voxel divides to an infinity
\* or to NaN.
VoxelIndex(c, threshold) ==
  IF threshold = 0
  THEN (IF c > 0 THEN "Infinity" ELSE IF c < 0 THEN "-Infinity" ELSE "NaN")
  ELSE ToString((4 * c + 3 * threshold) \div (6 * threshold))

VoxelKey(c, threshold) ==
  VoxelIndex(c.x, threshold) \o "_" \o VoxelIndex(c.y, threshold)
    \o "_" \o VoxelIndex(c.z, threshold)

RECURSIVE DedupRange(_, _, _, _, _)
\* The dedup loop over candidates lo .. hi with `seen` the keys added before lo,
\* unrolled by halving the range: after the loop has passed lo .. mid, seen
\* holds the key of every candidate in lo .. mid.
DedupRange(cs, lo, hi, seen, threshold) ==
  IF lo > hi THEN <<>>
  ELSE IF lo = hi
       THEN (IF VoxelKey(cs[lo], threshold) \in seen THEN <<>> ELSE <<cs[lo]>>)
  ELSE LET mid == (lo + hi) \div 2
           passed == {VoxelKey(cs[k], threshold) : k \in lo..mid}
       IN  DedupRange(cs, lo, mid, seen, threshold)
             \o DedupRange(cs, mid + 1, hi, seen \cup passed, threshold)

DedupKeepingLast(cs, threshold) ==
  LET n == Len(cs)
      keys == <<>> \o [k \in 1..n |-> VoxelKey(cs[k], threshold)]
      idx == <<>> \o [k \in 1..n |-> k]
      kept == SelectSeq(idx, LAMBDA k : \A j \in (k + 1)..n : keys[j] # keys[k])
  IN  <<>> \o [m \in 1..Len(kept) |-> cs[kept[m]]]

Dedup(cs, threshold) == DedupRange(cs, 1, Len(cs), {}, threshold)

\* b.strength - a.strength > 0: b is placed before a.
Stronger(b, a) == b.strength > a.strength

\* deduped.sort((a, b) => b.strength - a.strength): a stable sort; the element
\* at index k lands behind every stronger one and every equal one before it.
SortByStrength(cs) ==
  LET n == Len(cs)
      rank == <<>> \o [k \in 1..n |->
                 Cardinality({j \in 1..n :
                    \/ Stronger(cs[j], cs[k])
                    \/ (~Stronger(cs[k], cs[j]) /\ j < k)}) + 1]
  IN  <<>> \o [p \in 1..n |-> cs[CHOOSE k \in 1..n : rank[k] = p]]

CapOneMore(cs) == SubSeq(cs, 1, Min(MaxConvergences + 1, Len(cs)))

\* slice(0, 200)
Cap(cs) == SubSeq(cs, 1, Min(MaxConvergences, Len(cs)))

\* Lines 179-191: dedup by voxel, sort strongest first, cap.
DedupSortCap(cs, threshold) == Cap(SortByStrength(Dedup(cs, threshold)))

detectConvergenceAtTime(streams, tau, sliceDu, threshold, steps, bnds) ==
  DedupSortCap(PairwiseScan(streams, tau, sliceDu, threshold, steps, bnds), threshold)

\* --------------------------------------------------------------- streams
\* `S-${i + 1}` for the 0-based loop index i = k - 1.
StreamId(k) == "S-" \o ToString(k)

\* makeStreamParams(`S-${k}`, seed) for the k-th stream of a list and each seed
\* drawn, evaluated once.
StreamParams ==
  [k \in 1..MaxStreams, seed \in SeedPool |-> makeStreamParams(StreamId(k), seed)] @@ <<>>

\* The streams useMemo body: ids S-1 .. S-n, seeds[k] the value of
\* Math.floor(Math.random() * 2 ** 31) drawn for stream k.
MakeStreams(n, seeds) ==
  <<>> \o [k \in 1..n |-> [id |-> StreamId(k), params |-> StreamParams[k, seeds[k]]]]

\* ------------------------------------------- direct calls of the detector
TauValues == {0, 7000}

SliceDuValues == {0, 25, 150}

ThresholdValues == {0, 16, 64, 140}

StepsValues == {1, 4, 20}

\* Stream lists of 0 .. MaxStreams streams with ids S-1, S-2, ...
StreamLists ==
  UNION {{MakeStreams(n, seeds) : seeds \in [1..n -> SeedPool]} : n \in 0..MaxStreams}

SmallArgs ==
  [streams : StreamLists, tau : TauValues, sliceDu : SliceDuValues,
   threshold : ThresholdValues \ {16}, steps : StepsValues]

\* Two streams of equal shape sampled at the densest slider setting.
DenseArgs ==
  {[streams |-> MakeStreams(2, <<s, s>>), tau |-> 0, sliceDu |-> 5,
    threshold |-> 16, steps |-> 200] : s \in {1}}

NotMounted == <<>>

InitDetect ==
  /\ ui = NotMounted
  /\ uiB = NotMounted
  /\ args \in SmallArgs \cup DenseArgs
  /\ candidates = <<>>
  /\ returned = <<>>
  /\ earlier = <<>>
  /\ points = <<>>
  /\ phase = "args"

\* detectConvergenceAtTime(a.streams, a.tau, a.sliceDu, a.threshold, a.steps, bounds):
\* candidates is its local `convergences` after the scan, returned what it
\* makes of them (detectConvergenceAtTime is DedupSortCap of PairwiseScan).
Call(a, next) ==
  /\ args' = a
  /\ candidates' = PairwiseScan(a.streams, a.tau, a.sliceDu, a.threshold, a.steps, bounds)
  /\ returned' = DedupSortCap(candidates', a.threshold)
  /\ earlier' = [args |-> args, candidates |-> candidates, returned |-> returned]
  /\ phase' = next
  /\ UNCHANGED <<ui, uiB, points>>

Detect ==
  /\ phase = "args"
  /\ Call(args, "detected")

\* The stream list with the streams at positions i and j exchanged.
Swap(streams, i, j) ==
  [k \in 1..Len(streams) |->
     IF k = i THEN streams[j] ELSE IF k = j THEN streams[i] ELSE streams[k]]

\* The same call again with two streams exchanged in the list.
DetectSwapped(i, j) ==
  /\ phase = "detected"
  /\ Call([args EXCEPT !.streams = Swap(args.streams, i, j)], "swapped")

\* The same call again with a threshold at least as large.
DetectRaised(t) ==
  /\ phase = "detected"
  /\ t >= args.threshold
  /\ Call([args EXCEPT !.threshold = t], "raised")

\* buildStreamPointsAtTime(args.streams[s].params, bounds, args.steps, args.tau)
Sample(s) ==
  /\ phase = "args"
  /\ points' = buildStreamPointsAtTime(args.streams[s].params, bounds, args.steps, args.tau)
  /\ phase' = "sampled"
  /\ UNCHANGED <<ui, uiB, args, candidates, returned, earlier>>

NextDetect ==
  \/ Detect
  \/ \E i, j \in 1..Len(args.streams) : i < j /\ DetectSwapped(i, j)
  \/ \E t \in ThresholdValues : DetectRaised(t)
  \/ \E s \in 1..Len(args.streams) : Sample(s)

SpecDetect == InitDetect /\ [][NextDetect]_vars

\* ------------------------------------------------ claims on direct calls
Called == phase \in {"detected", "swapped", "raised"}

\* Two streams with distinct ids and the same shape parameters.
TwinStreams ==
  /\ Len(args.streams) = 2
  /\ args.streams[1].id # args.streams[2].id
  /\ args.streams[1].params = args.streams[2].params

\* The (unordered stream pair, position, strength) tuples of a list of events.
TupleSet(evs) ==
  {[pair |-> {evs[k].streams[1], evs[k].streams[2]},
    x |-> evs[k].x, y |-> evs[k].y, z |-> evs[k].z,
    strength |-> evs[k].strength] : k \in 1..Len(evs)}

\* No two events of the list fall into the same voxel cell.
DistinctCells(evs, threshold) ==
  Cardinality({VoxelKey(evs[k], threshold) : k \in 1..Len(evs)}) = Len(evs)

\* C1: the sequence detectConvergenceAtTime returns has at most 200 events and
\* its strengths never increase from one event to the next.
C1_AtMost200StrongestFirst ==
  /\ Len(returned) <= 200
  /\ \A k \in 1..(Len(returned) - 1) : returned[k].strength >= returned[k + 1].strength

\* C1 witness: a call whose deduplicated events exceed the cap returned exactly
\* 200 events of differing strengths.
C1_Witness ==
  /\ phase = "detected"
  /\ Len(returned) = 200
  /\ returned[1].strength > returned[200].strength
  /\ Len(Dedup(candidates, args.threshold)) > 200

\* C2 as claimed: exchanging two streams of the list leaves the set of returned
\* (stream pair, position, strength) tuples unchanged.
C2_SwapKeepsReturned ==
  phase = "swapped" => TupleSet(returned) = TupleSet(earlier.returned)

\* C2 amended: exchanging two streams leaves the set of candidate tuples of the
\* pairwise scan unchanged, and leaves the set of returned tuples unchanged when
\* no two candidates share a voxel cell and there are at most 200 of them.
C2_SwapKeepsCandidates ==
  phase = "swapped" =>
    /\ TupleSet(candidates) = TupleSet(earlier.candidates)
    /\ (DistinctCells(earlier.candidates, args.threshold) /\ Len(earlier.candidates) <= 200
          => TupleSet(returned) = TupleSet(earlier.returned))

\* C2 witness: two streams of different shape were exchanged and the scan found
\* several candidates, each in a cell of its own.
C2_Witness ==
  /\ phase = "swapped"
  /\ Len(args.streams) = 2
  /\ args.streams[1].params # args.streams[2].params
  /\ Len(candidates) >= 3
  /\ DistinctCells(earlier.candidates, args.threshold)
  /\ TupleSet(returned) = TupleSet(earlier.returned)

\* Some event of the list has path coordinate i / steps.
HasEventAt(evs, i, steps) ==
  \E k \in 1..Len(evs) : evs[k].u.n * steps = i * evs[k].u.d

\* C4 as claimed: for two streams of equal shape at time 0 the returned events
\* cover every sampled path coordinate i / steps.
C4_ReturnedCoversEveryU ==
  (phase = "detected" /\ TwinStreams /\ args.tau = 0)
    => \A i \in 0..args.steps : HasEventAt(returned, i, args.steps)

\* C4 amended: for two streams of equal shape at time 0 the pairwise scan yields,
\* for every sampled path coordinate i / steps, a candidate at that coordinate
\* naming both streams; the returned events are what dedup and the cap keep.
C4_CandidatesCoverEveryU ==
  (phase = "detected" /\ TwinStreams /\ args.tau = 0)
    => \A i \in 0..args.steps :
         \E k \in 1..Len(candidates) :
            /\ candidates[k].u = [n |-> 2 * i, d |-> 2 * args.steps]
            /\ candidates[k].streams = <<args.streams[1].id, args.streams[2].id>>

\* C4 witness: two streams of equal shape at time 0, a candidate for every
\* sample, and fewer events returned than samples.
C4_Witness ==
  /\ phase = "detected"
  /\ TwinStreams
  /\ args.tau = 0
  /\ Len(candidates) >= args.steps + 1
  /\ Len(returned) < args.steps + 1
  /\ Len(returned) > 0

\* C5: every returned event names exactly two stream ids and they differ (the
\* ids of the input list are unique).
C5_TwoDistinctStreams ==
  \A k \in 1..Len(returned) :
     /\ Len(returned[k].streams) = 2
     /\ returned[k].streams[1] # returned[k].streams[2]

\* C5 witness: a call on three streams returned events.
C5_Witness ==
  /\ Called
  /\ Len(args.streams) = 3
  /\ Len(returned) >= 2

\* C7: calling again with a threshold at least as large keeps every candidate of
\* the scan and never lowers their number.
C7_RaisedKeepsCandidates ==
  phase = "raised" =>
    /\ Len(candidates) >= Len(earlier.candidates)
    /\ \A k \in 1..Len(earlier.candidates) :
          \E m \in 1..Len(candidates) : candidates[m] = earlier.candidates[k]

\* C7 witness: the threshold grew and the scan found more candidates than before.
C7_Witness ==
  /\ phase = "raised"
  /\ args.threshold > earlier.args.threshold
  /\ Len(earlier.candidates) > 0
  /\ Len(candidates) > Len(earlier.candidates)

\* C9: a call on fewer than two streams returns the empty sequence.
C9_FewerThanTwoIsEmpty ==
  (Called /\ Len(args.streams) < 2) => returned = <<>>

\* C9 witness: a call on one densely sampled stream with the widest slice and
\* the largest threshold.
C9_Witness ==
  /\ Called
  /\ Len(args.streams) = 1
  /\ args.steps = 20
  /\ args.sliceDu = 150
  /\ args.threshold = 140

\* C10: buildStreamPointsAtTime returns steps + 1 points, the i-th (from 0) with
\* u = i / steps, so the first has u = 0 and the last u = 1.
C10_EvenlySpacedPoints ==
  phase = "sampled" =>
    /\ Len(points) = args.steps + 1
    /\ \A i \in 0..args.steps : points[i + 1].u = [n |-> i, d |-> args.steps]
    /\ points[1].u.n = 0
    /\ points[Len(points)].u.n = points[Len(points)].u.d

\* C10 witness: a stream was sampled with 20 segments.
C10_Witness ==
  /\ phase = "sampled"
  /\ args.steps = 20
  /\ Len(points) = 21

\* ---------------------------------------------------- inputs of the page
\* Frame lengths in 1/100 s: a frame of no length and a slow frame of 0.2 s,
\* long enough to turn the whole-degree phases of pointOnStream.
Deltas == {0, 20}

\* Speed slider positions, in tenths.
SpeedInputs == {10, 20}

\* Integers typed into the Streams input (none above MaxStreams).
StreamCountInputs == {0, 2, 3}

StepsInputs == {20, 25}

SliceDuInputs == {25, 150}

ThresholdInputs == {64, 140}

\* Values typed into the X, Y and Z inputs.
NexusXInputs == {0, 40}

NexusYInputs == {0, -25}

NexusZInputs == {0, 30}

DragTargets == {[x |-> 40, y |-> -25, z |-> 30]}

\* Stream lists the streams memo can hold.
PageStreamLists ==
  UNION {{MakeStreams(clamp(v, 1, 20), seeds) : seeds \in [1..clamp(v, 1, 20) -> SeedPool]} :
           v \in StreamCountInputs}

\* Values of tau that frame ticks taken below MaxTau lead to.
RECURSIVE TauClosure(_)

TauClosure(S) ==
  LET T == S \cup {t + d * 15 * v : t \in {x \in S : x < MaxTau}, d \in Deltas, v \in SpeedInputs}
  IN IF T = S THEN S ELSE TauClosure(T)

PageTaus == TauClosure({0})

PageArgs ==
  [streams : PageStreamLists, tau : PageTaus, sliceDu : SliceDuInputs,
   threshold : ThresholdInputs, steps : StepsInputs]

\* detectConvergenceAtTime is a pure function of its arguments: its value for
\* each argument list the page can pass, evaluated once.
Detected ==
  [a \in PageArgs |->
     detectConvergenceAtTime(a.streams, a.tau, a.sliceDu, a.threshold, a.steps, bounds)]
  @@ <<>>

\* ------------------------------------------------- NexusConvergenceMap4D
\* The component is the record of its state hooks (streamCount, steps, sliceDu,
\* threshold, tau, playing, speed, nexusPoint), the position of the mesh behind
\* nexusMeshRef, and its two memos (streams, convergences).  sliceDu is in
\* 1/1000, speed in tenths, the nexus point in world units.  perVertexColor
\* only selects how the Stream lines are coloured and is left out.
Origin == [x |-> 0, y |-> 0, z |-> 0]

\* A first render: the useState defaults, but for streamCount and steps, with
\* streams built from fresh seeds and the convergences of those streams.  The
\* page mounts as FirstRender(6, 80, seeds).
FirstRender(streamCount, steps, seeds) ==
  LET streams == MakeStreams(streamCount, seeds) IN
  [streamCount |-> streamCount, steps |-> steps, sliceDu |-> 25, threshold |-> 64,
   tau |-> 0, playing |-> TRUE, speed |-> 10,
   nexusPoint |-> Origin, meshPosition |-> Origin,
   streams |-> streams,
   convergences |->
     Detected[[streams |-> streams, tau |-> 0, sliceDu |-> 25, threshold |-> 64,
               steps |-> steps]]]

\* The streams memo is stale when its one dependency, streamCount, changed.
StreamsStale(prev, next) == next.streamCount # prev.streamCount

ConvergencesStaleButForTau(prev, next) ==
  \/ StreamsStale(prev, next)
  \/ next.sliceDu # prev.sliceDu
  \/ next.threshold # prev.threshold
  \/ next.steps # prev.steps

\* The convergences memo is stale when streams, tau, sliceDu, threshold or steps
\* changed (bounds.w and bounds.h never do).
ConvergencesStale(prev, next) ==
  \/ StreamsStale(prev, next)
  \/ next.tau # prev.tau
  \/ next.sliceDu # prev.sliceDu
  \/ next.threshold # prev.threshold
  \/ next.steps # prev.steps

\* The render that follows a state update: prev holds the hooks and memos of
\* the previous render, next the updated hooks; seeds are the values
\* Math.random yields should the streams be rebuilt.  The effect on nexusPoint
\* moves the mesh to the nexus point.
Render(prev, next, seeds) ==
  LET streams == IF StreamsStale(prev, next)
                 THEN MakeStreams(next.streamCount, seeds)
                 ELSE prev.streams
  IN [next EXCEPT
        !.streams = streams,
        !.convergences =
           IF ConvergencesStale(prev, next)
           THEN Detected[[streams |-> streams, tau |-> next.tau,
                           sliceDu |-> next.sliceDu, threshold |-> next.threshold,
                           steps |-> next.steps]]
           ELSE prev.convergences,
        !.meshPosition =
           IF next.nexusPoint # prev.nexusPoint THEN next.nexusPoint ELSE @]

NoSeeds == <<>>

\* delta * 0.15 * speed, in 1/100000, for delta in 1/100 s and speed in tenths.
TauStepAtUnitSpeed(delta, speed) == delta * 15 * 10

TauStep(delta, speed) == delta * 15 * speed

\* setTau((t) => t + deltaTime)
handleTauUpdate(c, deltaTime) == [c EXCEPT !.tau = @ + deltaTime]

\* The useFrame callback of AnimationController for a frame of length delta.
AnimationController(c, delta) ==
  IF ~c.playing
  THEN c
  ELSE Render(c, handleTauUpdate(c, TauStep(delta, c.speed)), NoSeeds)

\* Play / Pause button: setPlaying((p) => !p)
PlayPauseClick(c) == Render(c, [c EXCEPT !.playing = ~@], NoSeeds)

SpeedChangeAndRewind(c, v) == Render(c, [c EXCEPT !.speed = v, !.tau = 0], NoSeeds)

\* Speed slider: setSpeed(+e.target.value)
SpeedChange(c, v) == Render(c, [c EXCEPT !.speed = v], NoSeeds)

\* Reset button: setTau(0)
ResetTauClick(c) == Render(c, [c EXCEPT !.tau = 0], NoSeeds)

\* Streams input holding the integer v: setStreamCount(clamp(parseInt(..), 1, 20))
StreamsChange(c, v, seeds) ==
  Render(c, [c EXCEPT !.streamCount = clamp(v, 1, 20)], seeds)

\* Steps/Stream slider: setSteps(parseInt(e.target.value, 10))
StepsChange(c, v) == Render(c, [c EXCEPT !.steps = v], NoSeeds)

\* Slice slider: setSliceDu(parseFloat(e.target.value))
SliceDuChange(c, v) == Render(c, [c EXCEPT !.sliceDu = v], NoSeeds)

\* Threshold slider: setThreshold(parseInt(e.target.value, 10))
ThresholdChange(c, v) == Render(c, [c EXCEPT !.threshold = v], NoSeeds)

\* TransformControls moved the mesh to p; onObjectChange copies the mesh
\* position into nexusPoint.
NexusDrag(c, p) ==
  Render(c, [c EXCEPT !.meshPosition = p, !.nexusPoint = p], NoSeeds)

NexusXChangeAndRewind(c, x) ==
  Render(c, [c EXCEPT !.nexusPoint.x = x, !.meshPosition.x = x, !.tau = 0], NoSeeds)

\* X input: setNexusPoint((p) => ({ ...p, x })) and mesh.position.x = x
NexusXChange(c, x) ==
  Render(c, [c EXCEPT !.nexusPoint.x = x, !.meshPosition.x = x], NoSeeds)

\* Y input
NexusYChange(c, y) ==
  Render(c, [c EXCEPT !.nexusPoint.y = y, !.meshPosition.y = y], NoSeeds)

\* Z input
NexusZChange(c, z) ==
  Render(c, [c EXCEPT !.nexusPoint.z = z, !.meshPosition.z = z], NoSeeds)

\* ------------------------------------------------------ one mounted page
\* The page once 2 was typed into the Streams input and the Steps/Stream slider
\* pulled down to 20, before a frame has advanced the time: both handlers
\* rebuild the memos, which leaves the page as a first render of two streams
\* and 20 steps would.
Mounted == {FirstRender(2, 20, seeds) : seeds \in [1..2 -> SeedPool]}

Init ==
  /\ ui \in Mounted
  /\ uiB = NotMounted
  /\ args = <<>>
  /\ candidates = <<>>
  /\ returned = <<>>
  /\ earlier = <<>>
  /\ points = <<>>
  /\ phase = "mounted"

Rest == <<uiB, args, candidates, returned, earlier, points, phase>>

FrameTick(delta) ==
  /\ ui.tau < MaxTau
  /\ ui' = AnimationController(ui, delta)
  /\ UNCHANGED Rest

PlayPause == ui' = PlayPauseClick(ui) /\ UNCHANGED Rest

SetSpeed(v) == ui' = SpeedChange(ui, v) /\ UNCHANGED Rest

ResetTau == ui' = ResetTauClick(ui) /\ UNCHANGED Rest

SetStreamCount(v, seeds) == ui' = StreamsChange(ui, v, seeds) /\ UNCHANGED Rest

SetSteps(v) == ui' = StepsChange(ui, v) /\ UNCHANGED Rest

SetSliceDu(v) == ui' = SliceDuChange(ui, v) /\ UNCHANGED Rest

SetThreshold(v) == ui' = ThresholdChange(ui, v) /\ UNCHANGED Rest

DragNexus(p) == ui' = NexusDrag(ui, p) /\ UNCHANGED Rest

SetNexusX(x) == ui' = NexusXChange(ui, x) /\ UNCHANGED Rest

SetNexusY(y) == ui' = NexusYChange(ui, y) /\ UNCHANGED Rest

SetNexusZ(z) == ui' = NexusZChange(ui, z) /\ UNCHANGED Rest

Next ==
  \/ \E delta \in Deltas : FrameTick(delta)
  \/ PlayPause
  \/ \E v \in SpeedInputs : SetSpeed(v)
  \/ ResetTau
  \/ \E v \in StreamCountInputs :
       \E seeds \in [1..clamp(v, 1, 20) -> SeedPool] : SetStreamCount(v, seeds)
  \/ \E v \in StepsInputs : SetSteps(v)
  \/ \E v \in SliceDuInputs : SetSliceDu(v)
  \/ \E v \in ThresholdInputs : SetThreshold(v)
  \/ \E p \in DragTargets : DragNexus(p)
  \/ \E x \in NexusXInputs : SetNexusX(x)
  \/ \E y \in NexusYInputs : SetNexusY(y)
  \/ \E z \in NexusZInputs : SetNexusZ(z)

Spec == Init /\ [][Next]_vars

\* -------------------------------------------------- two pages side by side
\* Two pages mounted with the same seeds.  Every time and slice control is
\* operated on both with the same input and both see the same frames; the
\* nexus point is moved on the second page only.
InitTwin ==
  /\ ui \in Mounted
  /\ uiB = ui
  /\ args = <<>>
  /\ candidates = <<>>
  /\ returned = <<>>
  /\ earlier = <<>>
  /\ points = <<>>
  /\ phase = "twin"

Others == <<args, candidates, returned, earlier, points, phase>>

TwinFrameTick(delta) ==
  /\ ui.tau < MaxTau
  /\ ui' = AnimationController(ui, delta)
  /\ uiB' = AnimationController(uiB, delta)
  /\ UNCHANGED Others

TwinPlayPause ==
  /\ ui' = PlayPauseClick(ui)
  /\ uiB' = PlayPauseClick(uiB)
  /\ UNCHANGED Others

TwinSetSpeed(v) ==
  /\ ui' = SpeedChange(ui, v)
  /\ uiB' = SpeedChange(uiB, v)
  /\ UNCHANGED Others

TwinResetTau ==
  /\ ui' = ResetTauClick(ui)
  /\ uiB' = ResetTauClick(uiB)
  /\ UNCHANGED Others

TwinSetStreamCount(v, seeds) ==
  /\ ui' = StreamsChange(ui, v, seeds)
  /\ uiB' = StreamsChange(uiB, v, seeds)
  /\ UNCHANGED Others

TwinSetSteps(v) ==
  /\ ui' = StepsChange(ui, v)
  /\ uiB' = StepsChange(uiB, v)
  /\ UNCHANGED Others

TwinSetSliceDu(v) ==
  /\ ui' = SliceDuChange(ui, v)
  /\ uiB' = SliceDuChange(uiB, v)
  /\ UNCHANGED Others

TwinSetThreshold(v) ==
  /\ ui' = ThresholdChange(ui, v)
  /\ uiB' = ThresholdChange(uiB, v)
  /\ UNCHANGED Others

TwinDragNexus(p) == uiB' = NexusDrag(uiB, p) /\ UNCHANGED <<ui, Others>>

TwinSetNexusX(x) == uiB' = NexusXChange(uiB, x) /\ UNCHANGED <<ui, Others>>

TwinSetNexusY(y) == uiB' = NexusYChange(uiB, y) /\ UNCHANGED <<ui, Others>>

TwinSetNexusZ(z) == uiB' = NexusZChange(uiB, z) /\ UNCHANGED <<ui, Others>>

NextTwin ==
  \/ \E delta \in Deltas : TwinFrameTick(delta)
  \/ TwinPlayPause
  \/ \E v \in SpeedInputs : TwinSetSpeed(v)
  \/ TwinResetTau
  \/ \E v \in StreamCountInputs :
       \E seeds \in [1..clamp(v, 1, 20) -> SeedPool] : TwinSetStreamCount(v, seeds)
  \/ \E v \in StepsInputs : TwinSetSteps(v)
  \/ \E v \in SliceDuInputs : TwinSetSliceDu(v)
  \/ \E v \in ThresholdInputs : TwinSetThreshold(v)
  \/ \E p \in DragTargets : TwinDragNexus(p)
  \/ \E x \in NexusXInputs : TwinSetNexusX(x)
  \/ \E y \in NexusYInputs : TwinSetNexusY(y)
  \/ \E z \in NexusZInputs : TwinSetNexusZ(z)

SpecTwin == InitTwin /\ [][NextTwin]_vars

\* ---------------------------------------------------- claims on the page
\* C3 as claimed: while playing is true, no frame tick and no control-panel
\* action makes tau smaller.
C3_TauNeverDecreasesWhilePlaying ==
  [][ui.playing => ui'.tau >= ui.tau]_vars

\* C3 amended: while playing is true, tau gets smaller only by the Reset
\* button, which sets it to 0; frame ticks and every other control-panel action
\* leave it as it is or make it larger.
C3_TauDecreasesOnlyByReset ==
  [][ui.playing => (ui'.tau >= ui.tau \/ (ui' = ResetTauClick(ui) /\ ui'.tau = 0))]_vars

\* C3 witness: a playing page whose time has advanced and whose stream count
\* and threshold were changed.
C3_Witness ==
  /\ ui.playing
  /\ ui.tau > 0
  /\ ui.streamCount = 1
  /\ ui.threshold = 140

\* C6: a frame tick of length delta adds delta * 0.15 * speed to tau when
\* playing is true and leaves tau unchanged when playing is false.
C6_TickAddsScaledDelta ==
  [][\A delta \in Deltas :
       FrameTick(delta) =>
         IF ui.playing THEN ui'.tau = ui.tau + delta * 15 * ui.speed
                       ELSE ui'.tau = ui.tau]_vars

\* C6 witness: a page paused at double speed after frames advanced its time.
C6_Witness ==
  /\ ~ui.playing
  /\ ui.speed = 20
  /\ ui.tau = 6000

\* C8: two pages operated alike but for moves of the nexus point show the same
\* convergences.
C8_NexusLeavesConvergences ==
  ui.convergences = uiB.convergences

\* C8 witness: the nexus points of the two pages differ in every coordinate,
\* time has advanced, the threshold was raised and convergences are shown.
C8_Witness ==
  /\ phase = "twin"
  /\ uiB.nexusPoint.x # ui.nexusPoint.x
  /\ uiB.nexusPoint.y # ui.nexusPoint.y
  /\ uiB.nexusPoint.z # ui.nexusPoint.z
  /\ uiB.meshPosition = uiB.nexusPoint
  /\ ui.tau > 0
  /\ ui.threshold = 140
  /\ Len(ui.convergences) > 0

\* ----------------------------------------- claims on the dedup of a call
\* The candidates that no earlier candidate shares its voxel key with, in the
\* order of the list.
FirstPerKey(cs, threshold) ==
  LET n == Len(cs)
      keys == <<>> \o [k \in 1..n |-> VoxelKey(cs[k], threshold)]
      idx == <<>> \o [k \in 1..n |-> k]
      first == SelectSeq(idx, LAMBDA k : \A j \in 1..(k - 1) : keys[j] # keys[k])
  IN  <<>> \o [m \in 1..Len(first) |-> cs[first[m]]]

\* Position in the latest call's stream list of the stream with this id.
PositionOf(id) == CHOOSE p \in 1..Len(args.streams) : args.streams[p].id = id

\* C11: the dedup of detectConvergenceAtTime keeps, in scan order, exactly the
\* candidates that are the first of their voxel key; the scan lists candidates
\* by the position of their first stream in the given list, the second stream
\* of each standing behind the first; every returned event is one of the kept
\* ones (all of them when at most 200 are kept), and no two returned events
\* share a voxel key.
C11_DedupKeepsFirstPerKey ==
  Called =>
    LET deduped == Dedup(candidates, args.threshold)
        kept == {deduped[m] : m \in 1..Len(deduped)}
        first == <<>> \o [k \in 1..Len(candidates) |->
                            PositionOf(candidates[k].streams[1])]
    IN  /\ deduped = FirstPerKey(candidates, args.threshold)
        /\ \A k \in 1..(Len(candidates) - 1) : first[k] <= first[k + 1]
        /\ \A k \in 1..Len(candidates) :
              first[k] < PositionOf(candidates[k].streams[2])
        /\ \A k \in 1..Len(returned) : returned[k] \in kept
        /\ (Len(deduped) <= 200 => Len(returned) = Len(deduped))
        /\ DistinctCells(returned, args.threshold)

\* C11 witness: a call on three streams whose scan found candidates sharing
\* voxel keys, among them candidates of different stream pairs, and whose
\* dedup kept several.
C11_Witness ==
  /\ phase = "detected"
  /\ Len(args.streams) = 3
  /\ Len(returned) >= 2
  /\ Len(returned) < Len(candidates)
  /\ \E j, k \in 1..Len(candidates) :
        /\ j < k
        /\ VoxelKey(candidates[j], args.threshold) = VoxelKey(candidates[k], args.threshold)
        /\ candidates[j].streams # candidates[k].streams

\* ------------------------------------------------- what the page shows
\* The Convergence markers drawn in the canvas: convergences.map(...).
SceneMarkers(c) == c.convergences

RECURSIVE RoundedRootIn(_, _, _)
\* The largest r in lo .. hi with (2r - 1)^2 <= 4n: the square root of n
\* rounded to the nearest integer.
RoundedRootIn(lo, hi, n) ==
  IF lo = hi THEN lo
  ELSE LET mid == (lo + hi + 1) \div 2
       IN  IF (2 * mid - 1) * (2 * mid - 1) <= 4 * n
           THEN RoundedRootIn(mid, hi, n)
           ELSE RoundedRootIn(lo, mid - 1, n)

\* Math.sqrt(dx * dx + dy * dy + dz * dz).toFixed(1) in tenths, for an event
\* in half units and a nexus point in world units.
DistanceShown(ev, nexus) ==
  LET dx == ev.x - 2 * nexus.x
      dy == ev.y - 2 * nexus.y
      dz == ev.z - 2 * nexus.z
  IN  RoundedRootIn(0, 23170, 25 * (dx * dx + dy * dy + dz * dz))

\* c.u.toFixed(3) in thousandths.
PathShown(u) == (2000 * u.n + u.d) \div (2 * u.d)

\* The items of the Convergences list of the panel:
\* convergences.slice(0, 20).map(...).
PanelList(c) ==
  <<>> \o [k \in 1..Min(20, Len(c.convergences)) |->
             [streams |-> c.convergences[k].streams,
              u |-> PathShown(c.convergences[k].u),
              dist |-> DistanceShown(c.convergences[k], c.nexusPoint)]]

\* detectConvergenceAtTime on the page's current streams, tau and detection
\* parameters.
DetectedNow(c) ==
  Detected[[streams |-> c.streams, tau |-> c.tau, sliceDu |-> c.sliceDu,
            threshold |-> c.threshold, steps |-> c.steps]]

\* C12 as claimed: the list of convergences the panel shows is the whole
\* result of detectConvergenceAtTime on the current streams, tau and
\* detection parameters.
C12_ListIsWholeDetection ==
  /\ Len(PanelList(ui)) = Len(DetectedNow(ui))
  /\ \A k \in 1..Len(PanelList(ui)) :
        /\ PanelList(ui)[k].streams = DetectedNow(ui)[k].streams
        /\ PanelList(ui)[k].u = PathShown(DetectedNow(ui)[k].u)

\* C12 amended: in every state the markers of the scene are the result of
\* detectConvergenceAtTime on the current streams, tau and detection
\* parameters, the streams are streamCount streams S-1 .. S-n, and the list of
\* the panel shows the first 20 events of that result in its order; nothing
\* computed for an earlier tau or parameter value is shown.
C12_ShownIsCurrentDetection ==
  LET fresh == DetectedNow(ui)
      list == PanelList(ui)
  IN  /\ SceneMarkers(ui) = fresh
      /\ Len(ui.streams) = ui.streamCount
      /\ \A k \in 1..Len(ui.streams) : ui.streams[k].id = StreamId(k)
      /\ Len(list) = Min(20, Len(fresh))
      /\ \A k \in 1..Len(list) :
            /\ list[k].streams = fresh[k].streams
            /\ list[k].u = PathShown(fresh[k].u)
            /\ list[k].dist = DistanceShown(fresh[k], ui.nexusPoint)

\* C12 witness: a paused page after frame ticks, with three streams, 25 steps,
\* a wider slice and a larger threshold than at mount, showing more than 20
\* markers, which differ from those it would show at time 0.
C12_Witness ==
  /\ ~ui.playing
  /\ ui.tau > 0
  /\ ui.streamCount = 3
  /\ ui.steps = 25
  /\ ui.sliceDu = 150
  /\ ui.threshold = 140
  /\ Len(SceneMarkers(ui)) > 20
  /\ Len(PanelList(ui)) = 20
  /\ SceneMarkers(ui) # DetectedNow([ui EXCEPT !.tau = 0])

====
